---------------------------- MODULE Spec2Model ----------------------------
(***************************************************************************)
(* A model of the HTTP/1.1 server framework of HttpServer.py: the wire     *)
(* codec (parse_request_line, parse_headers, send_response), the error     *)
(* mapper (send_error), the connection worker (serve_client) and the       *)
(* acceptor (serve_forever) with its registry of worker threads.           *)
(*                                                                         *)
(* Python values are modelled as follows.                                  *)
(*   str    a record [cs, s]: s holds the characters, cs the widest class  *)
(*          of character in it ("ascii" < 128, "latin1" < 256, "wide").    *)
(*   bytes  a record [s, w]: the characters that were encoded and the      *)
(*          number of bytes each of them takes.                            *)
(*   a line of the request stream: the parts it is made of (tokens and     *)
(*          runs of whitespace) and pad, a number of further non-blank     *)
(*          bytes inside its first token.                              *)
(*   an exception: a record with a field type.                             *)
(***************************************************************************)
EXTENDS Integers, Sequences, FiniteSets, TLC

\* Python's None, and the value of a local variable conn that holds None.
None == [none |-> TRUE]
NoSocket == "None"

MAX_LINE == 65536
MAX_HEADERS == 100

\* Number of connections the acceptor takes before it only waits for the interrupt.
MaxConns == 2

Conns == 1..MaxConns

Min(a, b) == IF a < b THEN a ELSE b
Max(a, b) == IF a > b THEN a ELSE b

(***************************************************************************)
(* str and bytes                                                           *)
(***************************************************************************)
Str(s) == [cs |-> "ascii", s |-> s]
Wide(s) == [cs |-> "wide", s |-> s]

\* str.encode('iso-8859-1'): one byte per character, UnicodeEncodeError above 255.
CanLatin1(t) == t.cs # "wide"
EncodeLatin1(t) == [s |-> t.s, w |-> 1]

\* str.encode('utf-8'): never fails; one byte per ASCII character, two otherwise
\* (the non-ASCII characters of the model are below U+0800).
EncodeUtf8(t) == [s |-> t.s, w |-> IF t.cs = "ascii" THEN 1 ELSE 2]

\* len(b) of a bytes value.
BLen(b) == Len(b.s) * b.w

\* Truthiness of a str or None operand of `or` / `not`.
Truthy(t) == t # None /\ t.s # ""

(***************************************************************************)
(* The request stream and rfile.readline                                   *)
(***************************************************************************)
WS == {" ", "  ", "\t", "\r\n", "\n"}

RECURSIVE SumLen(_)
SumLen(parts) == IF parts = <<>> THEN 0 ELSE Len(Head(parts)) + SumLen(Tail(parts))

\* Byte length of a line of the stream, terminator included.
LineLen(l) == SumLen(l.parts) + l.pad

Line(parts, pad) == [parts |-> parts, pad |-> pad]

\* rfile.readline(limit): at most limit bytes of the next line. At the end of
\* the stream it returns b'' when the peer has shut down its side, and raises
\* ConnectionResetError when the peer has reset the connection.
\* The result: raw (parts, n bytes), the stream left, and whether it raised.
ReadLine(stream, limit) ==
    IF stream.lines = <<>>
    THEN [raw |-> [parts |-> <<>>, n |-> 0],
          rest |-> stream,
          reset |-> (stream.end = "reset")]
    ELSE LET l == Head(stream.lines) IN
         IF LineLen(l) <= limit
         THEN [raw |-> [parts |-> l.parts, n |-> LineLen(l)],
               rest |-> [stream EXCEPT !.lines = Tail(@)],
               reset |-> FALSE]
         ELSE [raw |-> [parts |-> l.parts, n |-> limit],
               rest |-> [stream EXCEPT !.lines[1].pad = l.pad - limit],
               reset |-> FALSE]

(***************************************************************************)
(* Exceptions                                                              *)
(***************************************************************************)
HTTPError(status, reason, body) ==
    [type |-> "HTTPError", status |-> status, reason |-> reason, body |-> body]

ConnectionResetError == [type |-> "ConnectionResetError"]

\* Any other exception, with its textual description str(e).
OtherError(type, text) == [type |-> type, text |-> text]

\* An exception of a class other than HTTPError whose instances have the
\* attributes status, reason and body.
ForeignError(type, text, status, reason, body) ==
    [type |-> type, text |-> text, status |-> status, reason |-> reason, body |-> body]

NoExc == [type |-> "NoExc"]


(***************************************************************************)
(* Wire codec: request parsing                                             *)
(***************************************************************************)
IsSpace(p) == p \in WS

\* str.split(): the maximal runs of non-whitespace characters, in order.
Split(parts) == SelectSeq(parts, LAMBDA p : ~IsSpace(p))

\* What a parsing step hands back: the exception it raised (NoExc if none),
\* its value, the stream left, the number of readline calls it made and the
\* largest number of bytes one readline call returned to it.
Raised(e, rest, reads, held) ==
    [exc |-> e, val |-> None, rest |-> rest, reads |-> reads, held |-> held]

Returned(v, rest, reads, held) ==
    [exc |-> NoExc, val |-> v, rest |-> rest, reads |-> reads, held |-> held]

\* len(raw) > MAX_LINE, and the same test with the boundary moved by one.
TooLong_OffByOne(raw) == raw.n >= MAX_LINE

TooLong(raw) == raw.n > MAX_LINE

\* len(words) != 3, and the test that lets extra tokens through.
Malformed_FewerOnly(words) == Len(words) < 3

Malformed(words) == Len(words) # 3

\* ver != 'HTTP/1.1', and the test that accepts any HTTP/1.x.
Unsupported_Lenient(ver) == ver \notin {"HTTP/1.1", "HTTP/1.0"}

Unsupported(ver) == ver # "HTTP/1.1"

\* HTTPServer.parse_request_line
parse_request_line(stream) ==
    LET r == ReadLine(stream, MAX_LINE + 1)
        words == Split(r.raw.parts)
    IN  IF r.reset THEN Raised(ConnectionResetError, r.rest, 1, 0)
        ELSE IF TooLong(r.raw)
        THEN Raised(HTTPError(400, Str("Bad request"), Str("Request line is too long")),
                    r.rest, 1, r.raw.n)
        ELSE IF Malformed(words)
        THEN Raised(HTTPError(400, Str("Bad request"), Str("Malformed request line")),
                    r.rest, 1, r.raw.n)
        ELSE IF Unsupported(words[3])
        THEN Raised(HTTPError(505, Str("HTTP Version Not Supported"), None),
                    r.rest, 1, r.raw.n)
        ELSE Returned(words, r.rest, 1, r.raw.n)

\* line in (b'\r\n', b'\n', b'')
IsBlank(raw) == raw.parts \in {<<"\r\n">>, <<"\n">>, <<>>} /\ raw.n = SumLen(raw.parts)

\* Header names are matched without regard to case (email.message.Message.get).
Lower(name) ==
    CASE name \in {"Host", "host", "HOST"} -> "host"
      [] name \in {"Content-Length", "content-length"} -> "content-length"
      [] OTHER -> name

\* A line "Name: value" of the header block; a line starting with whitespace
\* continues the line before it; anything else is no header line.
IsHeaderLine(raw) ==
    Len(raw.parts) >= 2 /\ ~IsSpace(raw.parts[1]) /\ raw.parts[2] = ":"

IsContinuation(raw) == raw.parts # <<>> /\ IsSpace(raw.parts[1])

\* The name of a header line (bytes of padding make it another name) and its
\* value with the surrounding whitespace stripped (one token in this model).
HeaderName(raw) ==
    IF raw.n = SumLen(raw.parts) THEN raw.parts[1] ELSE raw.parts[1] \o "..."

HeaderValue(raw) ==
    LET toks == Split(SubSeq(raw.parts, 3, Len(raw.parts)))
    IN  IF toks = <<>> THEN Str("") ELSE Str(toks[1])

\* The smallest and the greatest element of a non-empty set of numbers.
Least(S) == CHOOSE i \in S : \A j \in S : i <= j
Greatest(S) == CHOOSE i \in S : \A j \in S : i >= j

\* email.parser.Parser().parsestr on the joined header lines: the (name, value)
\* pairs in order, duplicates kept; the first line that is no header line ends
\* the header block (the rest would be the message's body).
parsestr(raws) ==
    LET stop == Least({i \in 1..Len(raws) : ~IsHeaderLine(raws[i]) /\ ~IsContinuation(raws[i])}
                      \cup {Len(raws) + 1})
        lines == SelectSeq(SubSeq(raws, 1, stop - 1), IsHeaderLine)
    IN  [i \in 1..Len(lines) |-> <<HeaderName(lines[i]), HeaderValue(lines[i])>>]

\* Message.get(name): the value of the first header of that name, or None.
Get(headers, name) ==
    LET found == {i \in 1..Len(headers) : Lower(headers[i][1]) = Lower(name)}
    IN  IF found = {} THEN None ELSE headers[Least(found)][2]

\* len(headers) > MAX_HEADERS, and the same test with the boundary moved by one.
TooMany_OffByOne(headers) == Len(headers) > MAX_HEADERS + 1

TooMany(headers) == Len(headers) > MAX_HEADERS

\* HTTPServer.parse_headers. The i-th pass of its loop calls readline on the
\* stream behind the i - 1 lines the passes before it appended (a pass that
\* gets a line cut at the limit is the last one); the loop ends with the first
\* pass that raises or breaks.
parse_headers(stream) ==
    LET N == Len(stream.lines)
        r == [i \in 1..(N + 1) |->
                 ReadLine([stream EXCEPT !.lines = SubSeq(@, i, N)], MAX_LINE + 1)]
        headers(i) == [j \in 1..i |-> r[j].raw]
        Ends(i) == \/ r[i].reset
                   \/ TooLong(r[i].raw)
                   \/ IsBlank(r[i].raw)
                   \/ TooMany(headers(i))
        k == Least({i \in 1..(N + 1) : Ends(i)})
        last == r[k]
        held == Greatest({r[i].raw.n : i \in 1..k})
    IN  IF last.reset THEN Raised(ConnectionResetError, last.rest, k, held)
        ELSE IF TooLong(last.raw)
        THEN Raised(HTTPError(494, Str("Request header too large"), None), last.rest, k, held)
        ELSE IF IsBlank(last.raw)
        THEN Returned([headers |-> parsestr(headers(k - 1)), nlines |-> k - 1],
                      last.rest, k, held)
        ELSE Raised(HTTPError(494, Str("Too many headers"), None), last.rest, k, held)

\* not host, for the value Message.get returned, and the test for None alone.
HostMissing_NoneOnly(host) == host = None

HostMissing(host) == ~Truthy(host)

\* HTTPServer.parse_request, after conn.makefile('rb'). The Request holds the
\* stream left unread (rfile); nlines is the number of header lines read.
parse_request(stream) ==
    LET rl == parse_request_line(stream) IN
    IF rl.exc # NoExc THEN rl
    ELSE LET hd == parse_headers(rl.rest)
             reads == rl.reads + hd.reads
             held == Max(rl.held, hd.held)
         IN  IF hd.exc # NoExc THEN Raised(hd.exc, hd.rest, reads, held)
             ELSE IF HostMissing(Get(hd.val.headers, "Host"))
             THEN Raised(HTTPError(400, Str("Bad request"), Str("Host header is missing")),
                         hd.rest, reads, held)
             ELSE Returned([method |-> rl.val[1], target |-> rl.val[2],
                            version |-> rl.val[3], headers |-> hd.val.headers,
                            nlines |-> hd.val.nlines],
                           hd.rest, reads, held)

(***************************************************************************)
(* Request.body                                                            *)
(***************************************************************************)
\* int(size) for the header values of the model; ValueError otherwise.
IsInt(v) == v \in {"0", "2", "3"}
ToInt(v) == CASE v = "0" -> 0 [] v = "2" -> 2 [] v = "3" -> 3 [] OTHER -> -1

\* rfile.read(n) on the bytes after the header block: exactly n bytes when the
\* peer sent that many; fewer at the end of a stream the peer shut down;
\* ConnectionResetError when the peer reset the connection before sending them.
Read(stream, n) ==
    IF Len(stream.body) >= n
    THEN Returned([bytes |-> SubSeq(stream.body, 1, n)],
                  [stream EXCEPT !.body = SubSeq(@, n + 1, Len(@))], 0, 0)
    ELSE IF stream.end = "reset"
    THEN Raised(ConnectionResetError, stream, 0, 0)
    ELSE Returned([bytes |-> stream.body], [stream EXCEPT !.body = <<>>], 0, 0)

\* A body that takes Content-Length: 0 for no Content-Length.
body_ZeroIsNone(request, rfile) ==
    LET size == Get(request.headers, "Content-Length") IN
    IF ~Truthy(size) \/ size.s = "0" THEN Returned(None, rfile, 0, 0)
    ELSE Read(rfile, ToInt(size.s))

\* Request.body
body(request, rfile) ==
    LET size == Get(request.headers, "Content-Length") IN
    IF ~Truthy(size) THEN Returned(None, rfile, 0, 0)
    ELSE IF ~IsInt(size.s)
    THEN Raised(OtherError("ValueError", Str("invalid literal for int()")), rfile, 0, 0)
    ELSE Read(rfile, ToInt(size.s))

(***************************************************************************)
(* Wire codec: response serialization                                      *)
(***************************************************************************)
Response(status, reason, headers, b) ==
    [status |-> status, reason |-> reason, headers |-> headers, body |-> b]

\* An int among the values of a Response, a list of header pairs, and a bytes
\* value.
I(n) == [int |-> n]
List(items) == [items |-> items]
Bytes(s) == [s |-> s, w |-> 1]

IsIntVal(v) == "int" \in DOMAIN v
IsBytes(v) == "w" \in DOMAIN v

\* The text an f-string puts for {v}.
Fmt(v) == IF IsIntVal(v) THEN Str(ToString(v.int)) ELSE v

\* The widest character class of two texts.
Widest(a, b) ==
    IF "wide" \in {a, b} THEN "wide" ELSE IF "latin1" \in {a, b} THEN "latin1" ELSE "ascii"

\* f'HTTP/1.1 {resp.status} {resp.reason}\r\n'
StatusLine(resp) ==
    [cs |-> Fmt(resp.reason).cs,
     s |-> "HTTP/1.1 " \o ToString(resp.status) \o " " \o Fmt(resp.reason).s \o "\r\n"]

\* f'{key}: {value}\r\n'
HeaderLine(h) ==
    [cs |-> Widest(Fmt(h[1]).cs, Fmt(h[2]).cs),
     s |-> Fmt(h[1]).s \o ": " \o Fmt(h[2]).s \o "\r\n"]

\* What one wfile.write puts into the stream: the bytes, and which part of
\* the response they are.
Chunk(part, b) == [part |-> part, s |-> b.s, w |-> b.w]

\* A header loop that writes the lines in the reverse order.
WriteHeaders_Reversed(hs) ==
    [buf |-> [i \in 1..Len(hs) |->
                 Chunk("header", EncodeLatin1(HeaderLine(hs[Len(hs) + 1 - i])))],
     ok |-> TRUE]

\* The header loop of send_response: the lines written to wfile, up to the
\* first one that cannot be encoded.
RECURSIVE WriteHeaders(_)
WriteHeaders(hs) ==
    IF hs = <<>> THEN [buf |-> <<>>, ok |-> TRUE]
    ELSE IF ~CanLatin1(HeaderLine(Head(hs))) THEN [buf |-> <<>>, ok |-> FALSE]
    ELSE LET r == WriteHeaders(Tail(hs))
         IN  [buf |-> <<Chunk("header", EncodeLatin1(HeaderLine(Head(hs))))>> \o r.buf,
              ok |-> r.ok]

UnicodeEncodeError == OtherError("UnicodeEncodeError", Str("'latin-1' codec can't encode"))
TypeError == OtherError("TypeError", Str("a bytes-like object is required, not 'str'"))

\* What the socket does with the bytes wfile.flush() hands it, and the
\* outcomes in the specification of the whole server.
IOOutcomes == {"sent", "BrokenPipeError", "ConnectionResetError"}
CoreIOOutcomes == {"sent", "BrokenPipeError"}

IOError(io) ==
    IF io = "ConnectionResetError" THEN ConnectionResetError
    ELSE OtherError(io, Str("[Errno 32] Broken pipe"))

\* HTTPServer.send_response on a fresh wfile: the chunks written to wfile in
\* order (buf), whether flush put them on the connection (sent), and the
\* exception raised. A wfile abandoned by an exception keeps its buffer.
send_response(resp, io) ==
    LET status == <<Chunk("status", EncodeLatin1(StatusLine(resp)))>>
        hs == IF resp.headers = None \/ resp.headers = List(<<>>)
              THEN [buf |-> <<>>, ok |-> TRUE]
              ELSE WriteHeaders(resp.headers.items)
        head == status \o hs.buf \o <<Chunk("blank", Bytes("\r\n"))>>
        hasBody == resp.body # None /\ resp.body.s # ""
    IN  IF ~CanLatin1(StatusLine(resp))
        THEN [buf |-> <<>>, sent |-> FALSE, exc |-> UnicodeEncodeError]
        ELSE IF ~hs.ok
        THEN [buf |-> status \o hs.buf, sent |-> FALSE, exc |-> UnicodeEncodeError]
        ELSE IF hasBody /\ ~IsBytes(resp.body)
        THEN [buf |-> head, sent |-> FALSE, exc |-> TypeError]
        ELSE LET all == IF hasBody THEN head \o <<Chunk("body", resp.body)>> ELSE head
             IN  IF io = "sent" THEN [buf |-> all, sent |-> TRUE, exc |-> NoExc]
                 ELSE [buf |-> all, sent |-> FALSE, exc |-> IOError(io)]

(***************************************************************************)
(* Error mapper                                                            *)
(***************************************************************************)
\* str(err) of an exception.
ErrText(err) ==
    IF err.type = "HTTPError" THEN Str("HTTPError") ELSE err.text

\* The body send_error picks for an HTTPError, and the one that ignores err.body.
ErrorBody_ReasonOnly(err) == err.reason

ErrorBody(err) == IF Truthy(err.body) THEN err.body ELSE err.reason

\* len(body) for the Content-Length header, and the length in characters.
ContentLength_Chars(b) == Len(b.s)

ContentLength(b) == BLen(b)

\* Whether err.status, err.reason and err.body can all be read: true of every
\* HTTPError, and of any other exception that has these three attributes.
HasProtocolFields(err) == {"status", "reason", "body"} \subseteq DOMAIN err

\* The Response send_error builds: from an exception with status, reason and
\* body its status, reason and body or reason; from anything else (reading
\* the attributes raises AttributeError, caught by the bare except) the fixed 500.
ErrorResponse(err) ==
    IF HasProtocolFields(err)
    THEN LET b == EncodeUtf8(ErrorBody(err))
         IN  Response(err.status, err.reason, List(<<<<Str("Content-Length"), I(ContentLength(b))>>>>), b)
    ELSE LET b == EncodeUtf8(ErrText(err))
         IN  Response(500, Str("Internal Server Error"),
                      List(<<<<Str("Content-Length"), I(ContentLength(b))>>>>), b)

\* HTTPServer.send_error
send_error(err, io) == send_response(ErrorResponse(err), io)

(***************************************************************************)
(* The requests peers send                                                 *)
(***************************************************************************)
Stream(lines, b, end) == [lines |-> lines, body |-> b, end |-> end]

RequestLine(method, target, version) ==
    Line(<<method, " ", target, " ", version, "\r\n">>, 0)

\* A line of exactly n bytes made by padding the first token of l.
PadTo(l, n) == [l EXCEPT !.pad = n - SumLen(l.parts)]

GET == RequestLine("GET", "/x/y", "HTTP/1.1")
HostLine == Line(<<"Host", ":", " ", "h", "\r\n">>, 0)
OtherLine == Line(<<"X-Pad", ":", " ", "v", "\r\n">>, 0)
LengthLine(n) == Line(<<"Content-Length", ":", " ", n, "\r\n">>, 0)
Blank == Line(<<"\r\n">>, 0)

\* n header lines, none of them Host.
Others(n) == [i \in 1..n |-> OtherLine]

\* A request line, a header block with its blank line, no body.
Plain(first, headers) == Stream(<<first>> \o headers \o <<Blank>>, <<>>, "eof")

RequestNames ==
    {"get", "put2", "put0", "put3short", "spaces", "lowerhost", "lf", "noblank",
     "http10", "http11lower", "ver4tokens",
     "2tokens", "4tokens", "emptyline", "eof", "blanks",
     "nohost", "emptyhost", "spacehost", "junkfirst",
     "line=MAX", "line>MAX", "line>>MAX", "line>MAX,http10", "header=MAX", "header>MAX",
     "headers=MAX", "headers>MAX", "headers>>MAX",
     "reset@line", "reset@headers", "reset@body"}

Requests(name) ==
    CASE name = "get" -> Plain(GET, <<HostLine>>)
      [] name = "put2" ->
            Stream(<<RequestLine("PUT", "/f", "HTTP/1.1"), HostLine, LengthLine("2"), Blank>>,
                   <<97, 98, 99>>, "eof")
      [] name = "put0" ->
            Stream(<<RequestLine("PUT", "/f", "HTTP/1.1"), HostLine, LengthLine("0"), Blank>>,
                   <<97>>, "eof")
      [] name = "put3short" ->
            Stream(<<RequestLine("PUT", "/f", "HTTP/1.1"), HostLine, LengthLine("3"), Blank>>,
                   <<97>>, "eof")
      [] name = "spaces" ->
            Plain(Line(<<"  ", "GET", "  ", "/x/y", "\t", "HTTP/1.1", " ", "\r\n">>, 0),
                  <<HostLine>>)
      [] name = "lowerhost" -> Plain(GET, <<Line(<<"host", ":", "h", "\r\n">>, 0)>>)
      [] name = "lf" ->
            Stream(<<Line(<<"GET", " ", "/", " ", "HTTP/1.1", "\n">>, 0),
                     Line(<<"Host", ":", " ", "h", "\n">>, 0), Line(<<"\n">>, 0)>>,
                   <<>>, "eof")
      [] name = "noblank" -> Stream(<<GET, HostLine>>, <<>>, "eof")
      [] name = "http10" -> Plain(RequestLine("GET", "/x/y", "HTTP/1.0"), <<HostLine>>)
      [] name = "http11lower" -> Plain(RequestLine("GET", "/x/y", "http/1.1"), <<HostLine>>)
      [] name = "ver4tokens" ->
            Plain(Line(<<"GET", " ", "/x", " ", "y", " ", "HTTP/1.0", "\r\n">>, 0), <<HostLine>>)
      [] name = "2tokens" -> Plain(Line(<<"GET", " ", "/x/y", "\r\n">>, 0), <<HostLine>>)
      [] name = "4tokens" ->
            Plain(Line(<<"GET", " ", "/x", " ", "y", " ", "HTTP/1.1", "\r\n">>, 0), <<HostLine>>)
      [] name = "emptyline" -> Plain(Blank, <<HostLine>>)
      [] name = "eof" -> Stream(<<>>, <<>>, "eof")
      [] name = "blanks" -> Plain(Line(<<"  ", "\t", "\r\n">>, 0), <<HostLine>>)
      [] name = "nohost" -> Plain(GET, <<OtherLine>>)
      [] name = "emptyhost" -> Plain(GET, <<Line(<<"Host", ":", "\r\n">>, 0)>>)
      [] name = "spacehost" -> Plain(GET, <<OtherLine, Line(<<"Host", ":", "  ", "\r\n">>, 0)>>)
      [] name = "junkfirst" -> Plain(GET, <<Line(<<"junk", "\r\n">>, 0), HostLine>>)
      [] name = "line=MAX" -> Plain(PadTo(GET, MAX_LINE), <<HostLine>>)
      [] name = "line>MAX" -> Plain(PadTo(GET, MAX_LINE + 1), <<HostLine>>)
      [] name = "line>>MAX" ->
            Plain(PadTo(Line(<<"GET", " ", "/x/y", "\r\n">>, 0), MAX_LINE + 7), <<HostLine>>)
      [] name = "line>MAX,http10" ->
            Plain(PadTo(RequestLine("GET", "/x/y", "HTTP/1.0"), MAX_LINE + 1), <<HostLine>>)
      [] name = "header=MAX" -> Plain(GET, <<HostLine, PadTo(OtherLine, MAX_LINE)>>)
      [] name = "header>MAX" -> Plain(GET, <<HostLine, PadTo(OtherLine, MAX_LINE + 1)>>)
      [] name = "headers=MAX" -> Plain(GET, <<HostLine>> \o Others(MAX_HEADERS - 1))
      [] name = "headers>MAX" -> Plain(GET, <<HostLine>> \o Others(MAX_HEADERS))
      [] name = "headers>>MAX" -> Plain(GET, <<HostLine>> \o Others(MAX_HEADERS + 2))
      [] name = "reset@line" -> Stream(<<>>, <<>>, "reset")
      [] name = "reset@headers" -> Stream(<<GET, HostLine>>, <<>>, "reset")
      [] name = "reset@body" ->
            Stream(<<RequestLine("PUT", "/f", "HTTP/1.1"), HostLine, LengthLine("3"), Blank>>,
                   <<97>>, "reset")

\* The requests peers send in the specification of the whole server.
CoreRequests == {"get", "http10", "reset@line"}

(***************************************************************************)
(* The handler (external): what handle_request does with a Request         *)
(***************************************************************************)
Returns(resp) == [kind |-> "return", resp |-> resp]
Raises(e) == [kind |-> "raise", exc |-> e]
\* req.body() first, then the Response.
ReadsBody(resp) == [kind |-> "body", resp |-> resp]

Handlers ==
    {Returns(Response(200, Str("OK"), List(<<<<Str("Content-Length"), I(5)>>>>), Bytes("hello"))),
     Returns(Response(404, Str("Not Found"), None, None)),
     Returns(Response(200, Str("OK"), None, Str("text"))),
     ReadsBody(Response(200, Str("OK"), None, None)),
     Raises(HTTPError(404, Str("Not found"), None)),
     Raises(HTTPError(403, Str("Forbidden"), [cs |-> "latin1", s |-> "acces refuse"])),
     Raises(HTTPError(404, Wide("NE"), None)),
     Raises(OtherError("ValueError", Str("boom"))),
     Raises(ForeignError("UpstreamError", Str("upstream"), 418, Str("I'm a teapot"), None)),
     Returns(Response(200, Str("OK"),
                      List(<<<<Str("A"), Str("1")>>, <<Str("X-Name"), Wide("NE")>>>>),
                      Bytes("zz")))}

\* The handler's behaviours in the specification of the whole server.
CoreHandlers ==
    {Returns(Response(200, Str("OK"), List(<<<<Str("Content-Length"), I(5)>>>>), Bytes("hello"))),
     Raises(HTTPError(404, Wide("NE"), None))}

(***************************************************************************)
(* State                                                                   *)
(***************************************************************************)
VARIABLES
    apc,        \* serve_forever: where the acceptor is
    cur,        \* serve_forever: the thread th being spawned or joined (0: none)
    sockOpen,   \* whether the listening socket _serv_sock is open
    threads,    \* the registry _threads
    lock,       \* the holder of _lock (0: free)
    iter,       \* the iterator of `for th in self._threads`
    nconn,      \* the number of connections accepted
    left,       \* the exception that made serve_forever leave its loop ("": none)
    logged,     \* the number of 'Client serving failed' lines printed
    pc,         \* per connection: where its worker (serve_client) is
    inp,        \* per connection: the name of the request its peer sends
    req,        \* serve_client's local req (None until parse_request returned)
    got,        \* what req.body() gave the handler (Unread: not called)
    rfile,      \* the read stream parse_request opened: what is left of it
    rfileOpen,  \* whether that stream is open: opened, and close() not called on it
    conn,       \* serve_client's local conn: "socket" or NoSocket
    connOpen,   \* whether the connection is open (conn.close() not called)
    resp,       \* the Response of the handler
    err,        \* the exception serve_client caught as e
    wire,       \* the bytes put on the connection, in order
    pending,    \* the chunks left in the wfile a failed send_response abandoned
    calls,      \* the operations the worker has invoked, in order
    parsed,     \* what parse_request did: readline calls, most bytes held
    reset,      \* the operation in which ConnectionResetError was raised ("": none)
    died        \* the exception that ended the worker's thread (NoExc: none)

avars == <<apc, cur, sockOpen, iter, nconn, left, logged>>
wvars == <<pc, inp, req, got, rfile, rfileOpen, conn, connOpen, resp, err, wire,
           pending, calls, parsed, reset, died>>
vars == <<apc, cur, sockOpen, threads, lock, iter, nconn, left, logged, pc, inp, req,
          got, rfile, rfileOpen, conn, connOpen, resp, err, wire, pending, calls, parsed,
          reset, died>>

\* req.body() has not been called.
Unread == [unread |-> TRUE]

NoIter == [used |-> 0, seen |-> {}]

\* HTTPServer.__init__, and no connection accepted yet.
Init ==
    /\ apc = "accept"
    /\ cur = 0
    /\ sockOpen = TRUE
    /\ threads = {}
    /\ lock = 0
    /\ iter = NoIter
    /\ nconn = 0
    /\ left = ""
    /\ logged = 0
    /\ pc = [c \in Conns |-> "idle"]
    /\ inp = [c \in Conns |-> "-"]
    /\ req = [c \in Conns |-> None]
    /\ got = [c \in Conns |-> Unread]
    /\ rfile = [c \in Conns |-> None]
    /\ rfileOpen = [c \in Conns |-> FALSE]
    /\ conn = [c \in Conns |-> NoSocket]
    /\ connOpen = [c \in Conns |-> FALSE]
    /\ resp = [c \in Conns |-> None]
    /\ err = [c \in Conns |-> NoExc]
    /\ wire = [c \in Conns |-> <<>>]
    /\ pending = [c \in Conns |-> <<>>]
    /\ calls = [c \in Conns |-> <<>>]
    /\ parsed = [c \in Conns |-> [reads |-> 0, held |-> 0]]
    /\ reset = [c \in Conns |-> ""]
    /\ died = [c \in Conns |-> NoExc]

(***************************************************************************)
(* Connection worker: serve_client, one thread per connection              *)
(***************************************************************************)
\* What serve_client does with an exception e raised by operation op inside
\* its try block: ConnectionResetError sets conn to None, anything else goes to
\* send_error. The second definition has no clause for ConnectionResetError.
Catch_NoResetClause(c, op, e) ==
    /\ conn' = conn
    /\ reset' = [reset EXCEPT ![c] = IF e.type = "ConnectionResetError" THEN op ELSE @]
    /\ err' = [err EXCEPT ![c] = IF e.type = "ConnectionResetError"
                                  THEN OtherError(e.type, Str("Connection reset by peer"))
                                  ELSE e]
    /\ pc' = [pc EXCEPT ![c] = "send_error"]

\* A serve_client that runs the failed operation again.
Catch_Retry(c, op, e) ==
    /\ conn' = conn
    /\ reset' = reset
    /\ err' = [err EXCEPT ![c] = e]
    /\ pc' = [pc EXCEPT ![c] = op]

Catch(c, op, e) ==
    IF e.type = "ConnectionResetError"
    THEN /\ conn' = [conn EXCEPT ![c] = NoSocket]
         /\ reset' = [reset EXCEPT ![c] = op]
         /\ err' = err
         /\ pc' = [pc EXCEPT ![c] = "close"]
    ELSE /\ conn' = conn
         /\ reset' = reset
         /\ err' = [err EXCEPT ![c] = e]
         /\ pc' = [pc EXCEPT ![c] = "send_error"]

\* req = self.parse_request(conn)
ParseRequest(c) ==
    /\ pc[c] = "parse_request"
    /\ LET r == parse_request(Requests(inp[c])) IN
       /\ calls' = [calls EXCEPT ![c] = Append(@, "parse_request")]
       /\ rfile' = [rfile EXCEPT ![c] = r.rest]
       /\ rfileOpen' = [rfileOpen EXCEPT ![c] = TRUE]
       /\ parsed' = [parsed EXCEPT ![c] = [reads |-> r.reads, held |-> r.held]]
       /\ IF r.exc = NoExc
          THEN /\ req' = [req EXCEPT ![c] = r.val]
               /\ pc' = [pc EXCEPT ![c] = "handle_request"]
               /\ UNCHANGED <<conn, err, reset>>
          ELSE /\ req' = req
               /\ Catch(c, "parse_request", r.exc)
    /\ UNCHANGED <<avars, threads, lock, inp, got, connOpen, resp, wire, pending, died>>

\* resp = self.handle_request(req)
HandleRequest(c, handlers) ==
    /\ pc[c] = "handle_request"
    /\ calls' = [calls EXCEPT ![c] = Append(@, "handle_request")]
    /\ \E h \in handlers :
         LET b == IF h.kind = "body" THEN body(req[c], rfile[c])
                  ELSE Returned(None, rfile[c], 0, 0)
             e == IF h.kind = "raise" THEN h.exc ELSE b.exc
         IN  /\ rfile' = [rfile EXCEPT ![c] = b.rest]
             /\ got' = [got EXCEPT ![c] = IF h.kind = "body" /\ b.exc = NoExc
                                           THEN b.val ELSE @]
             /\ IF e = NoExc
                THEN /\ resp' = [resp EXCEPT ![c] = h.resp]
                     /\ pc' = [pc EXCEPT ![c] = "send_response"]
                     /\ UNCHANGED <<conn, err, reset>>
                ELSE /\ resp' = resp
                     /\ Catch(c, "handle_request", e)
    /\ UNCHANGED <<avars, threads, lock, inp, req, rfileOpen, connOpen, wire, pending,
                   parsed, died>>

\* Whether the buffer of an abandoned wfile can still reach the connection:
\* only when it was abandoned by a failure other than one of the socket.
Abandoned(r) ==
    IF r.exc.type \in {"UnicodeEncodeError", "TypeError"} THEN r.buf ELSE <<>>

\* self.send_response(conn, resp)
SendResponse(c, ios) ==
    /\ pc[c] = "send_response"
    /\ calls' = [calls EXCEPT ![c] = Append(@, "send_response")]
    /\ \E io \in ios :
         LET r == send_response(resp[c], io) IN
         /\ wire' = [wire EXCEPT ![c] = IF r.sent THEN @ \o r.buf ELSE @]
         /\ pending' = [pending EXCEPT ![c] = Abandoned(r)]
         /\ IF r.exc = NoExc
            THEN /\ pc' = [pc EXCEPT ![c] = "close"]
                 /\ UNCHANGED <<conn, err, reset>>
            ELSE Catch(c, "send_response", r.exc)
    /\ UNCHANGED <<avars, threads, lock, inp, req, got, rfile, rfileOpen, connOpen, resp,
                   parsed, died>>

\* When the buffer of the abandoned wfile is written out: as soon as the
\* exception that refers to it is dropped at the end of the except block
\* (reference counting), or not before the connection is gone.
Collectors == {"at end of except", "never"}

\* except Exception as e: self.send_error(conn, e)
\* An exception raised in here leaves serve_client and ends the thread.
SendError(c, ios) ==
    /\ pc[c] = "send_error"
    /\ calls' = [calls EXCEPT ![c] = Append(@, "send_error")]
    /\ \E io \in ios, gc \in Collectors :
         LET r == send_error(err[c], io)
             late == IF io = "sent" /\ gc = "at end of except" THEN pending[c] ELSE <<>>
         IN  /\ wire' = [wire EXCEPT ![c] = (IF r.sent THEN @ \o r.buf ELSE @) \o late]
             /\ pending' = [pending EXCEPT ![c] = <<>>]
             /\ died' = [died EXCEPT ![c] = r.exc]
             /\ pc' = [pc EXCEPT ![c] = IF r.exc = NoExc THEN "close" ELSE "dead"]
    /\ UNCHANGED <<avars, threads, lock, inp, req, got, rfile, rfileOpen, conn, connOpen,
                   resp, err, parsed, reset>>

\* if conn: conn.close()   if req: req.rfile.close()
Close(c) ==
    /\ pc[c] = "close"
    /\ connOpen' = [connOpen EXCEPT ![c] = IF conn[c] # NoSocket THEN FALSE ELSE @]
    /\ rfileOpen' = [rfileOpen EXCEPT ![c] = IF req[c] # None THEN FALSE ELSE @]
    /\ pc' = [pc EXCEPT ![c] = "acquire"]
    /\ UNCHANGED <<avars, threads, lock, inp, req, got, rfile, conn, resp, err, wire,
                   pending, calls, parsed, reset, died>>

\* self._lock.acquire()
Acquire(c) ==
    /\ pc[c] = "acquire"
    /\ lock = 0
    /\ lock' = c
    /\ pc' = [pc EXCEPT ![c] = "remove"]
    /\ UNCHANGED <<avars, threads, inp, req, got, rfile, rfileOpen, conn, connOpen, resp,
                   err, wire, pending, calls, parsed, reset, died>>

KeyError == OtherError("KeyError", Str("<Thread>"))

\* self._threads.remove(current_thread()): KeyError when the thread is not in
\* the set, which ends the thread with the lock held.
Remove(c) ==
    /\ pc[c] = "remove"
    /\ IF c \in threads
       THEN /\ threads' = threads \ {c}
            /\ pc' = [pc EXCEPT ![c] = "release"]
            /\ died' = died
       ELSE /\ threads' = threads
            /\ pc' = [pc EXCEPT ![c] = "dead"]
            /\ died' = [died EXCEPT ![c] = KeyError]
    /\ UNCHANGED <<avars, lock, inp, req, got, rfile, rfileOpen, conn, connOpen, resp, err,
                   wire, pending, calls, parsed, reset>>

\* self._lock.release(), and serve_client returns.
Release(c) ==
    /\ pc[c] = "release"
    /\ lock' = 0
    /\ pc' = [pc EXCEPT ![c] = "done"]
    /\ UNCHANGED <<avars, threads, inp, req, got, rfile, rfileOpen, conn, connOpen, resp,
                   err, wire, pending, calls, parsed, reset, died>>

Finished(c) == pc[c] \in {"done", "dead"}
Spawned(c) == pc[c] # "idle"

(***************************************************************************)
(* Acceptor: serve_forever                                                 *)
(***************************************************************************)
\* conn, _ = self._serv_sock.accept() and th = Thread(target=self.serve_client,
\* args=(conn,)): the peer of the new connection sends one of `requests`.
Accept(requests) ==
    /\ apc = "accept"
    /\ nconn < MaxConns
    /\ nconn' = nconn + 1
    /\ cur' = nconn + 1
    /\ apc' = "start"
    /\ \E name \in requests : inp' = [inp EXCEPT ![nconn + 1] = name]
    /\ conn' = [conn EXCEPT ![nconn + 1] = "socket"]
    /\ connOpen' = [connOpen EXCEPT ![nconn + 1] = TRUE]
    /\ UNCHANGED <<sockOpen, threads, lock, iter, left, logged, pc, req, got, rfile,
                   rfileOpen, resp, err, wire, pending, calls, parsed, reset, died>>

\* self._serv_sock.accept() raises OSError (the connection was aborted, no
\* file descriptor is left, ...): the call is outside the inner try, so the
\* exception leaves the loop and goes through the finally block.
AcceptFails ==
    /\ apc = "accept"
    /\ apc' = "finally"
    /\ left' = "OSError"
    /\ UNCHANGED <<cur, sockOpen, threads, lock, iter, nconn, logged, wvars>>

\* th.start()
Start ==
    /\ apc = "start"
    /\ pc' = [pc EXCEPT ![cur] = "parse_request"]
    /\ apc' = "add"
    /\ UNCHANGED <<cur, sockOpen, threads, lock, iter, nconn, left, logged, inp, req, got,
                   rfile, rfileOpen, conn, connOpen, resp, err, wire, pending, calls,
                   parsed, reset, died>>

\* th.start() raises RuntimeError("can't start new thread"): except Exception
\* prints 'Client serving failed' and the loop goes on; the connection taken
\* has no worker and stays open.
StartFails ==
    /\ apc = "start"
    /\ logged' = logged + 1
    /\ apc' = "accept"
    /\ cur' = 0
    /\ UNCHANGED <<sockOpen, threads, lock, iter, nconn, left, wvars>>

\* self._threads.add(th)
Add ==
    /\ apc = "add"
    /\ threads' = threads \cup {cur}
    /\ apc' = "accept"
    /\ cur' = 0
    /\ UNCHANGED <<sockOpen, lock, iter, nconn, left, logged, wvars>>

\* KeyboardInterrupt, raised in the main thread wherever it is in the loop;
\* `except Exception` does not catch it.
Interrupt ==
    /\ apc \in {"accept", "start", "add"}
    /\ apc' = "finally"
    /\ cur' = 0
    /\ left' = "KeyboardInterrupt"
    /\ UNCHANGED <<sockOpen, threads, lock, iter, nconn, logged, wvars>>

\* finally: self._serv_sock.close()
CloseSocket ==
    /\ apc = "finally"
    /\ sockOpen' = FALSE
    /\ iter' = NoIter
    /\ apc' = "for"
    /\ UNCHANGED <<cur, threads, lock, nconn, left, logged, wvars>>

\* for th in self._threads: the iterator is made on entry to the loop and
\* remembers the size of the set; each step gives an element not yet visited,
\* or raises RuntimeError('Set changed size during iteration') when the size
\* of the set is no longer the one the iterator remembers.
ForNext ==
    /\ apc = "for"
    /\ LET it == IF iter = NoIter THEN [used |-> Cardinality(threads), seen |-> {}]
                 ELSE iter
       IN  IF Cardinality(threads) # it.used
           THEN /\ apc' = "RuntimeError"
                /\ UNCHANGED <<cur, iter>>
           ELSE IF threads \ it.seen = {}
           THEN /\ apc' = "left"
                /\ iter' = it
                /\ UNCHANGED cur
           ELSE \E th \in threads \ it.seen :
                  /\ cur' = th
                  /\ iter' = [it EXCEPT !.seen = @ \cup {th}]
                  /\ apc' = "join"
    /\ UNCHANGED <<sockOpen, threads, lock, nconn, left, logged, wvars>>

\* th.join(): returns once the thread has ended.
Join ==
    /\ apc = "join"
    /\ Finished(cur)
    /\ apc' = "for"
    /\ cur' = 0
    /\ UNCHANGED <<sockOpen, threads, lock, iter, nconn, left, logged, wvars>>

Worker(c, handlers, ios) ==
    \/ ParseRequest(c) \/ HandleRequest(c, handlers) \/ SendResponse(c, ios)
    \/ SendError(c, ios) \/ Close(c) \/ Acquire(c) \/ Remove(c) \/ Release(c)

Acceptor(requests) ==
    \/ Accept(requests) \/ AcceptFails \/ Start \/ StartFails \/ Add \/ Interrupt
    \/ CloseSocket \/ ForNext \/ Join

\* The whole server: the acceptor and the workers of the connections it takes.
Next == Acceptor(CoreRequests) \/ \E c \in Conns : Worker(c, CoreHandlers, CoreIOOutcomes)

Spec == Init /\ [][Next]_vars

\* One connection and its worker, for the codec and the error mapper: the
\* acceptor has taken the connection, started its worker, registered it, and
\* is back in accept; the peer sends any of the requests.
InitCodec ==
    /\ apc = "accept"
    /\ cur = 0
    /\ sockOpen = TRUE
    /\ threads = {1}
    /\ lock = 0
    /\ iter = NoIter
    /\ nconn = 1
    /\ left = ""
    /\ logged = 0
    /\ pc = [c \in Conns |-> IF c = 1 THEN "parse_request" ELSE "idle"]
    /\ inp \in {[c \in Conns |-> IF c = 1 THEN name ELSE "-"] : name \in RequestNames}
    /\ req = [c \in Conns |-> None]
    /\ got = [c \in Conns |-> Unread]
    /\ rfile = [c \in Conns |-> None]
    /\ rfileOpen = [c \in Conns |-> FALSE]
    /\ conn = [c \in Conns |-> IF c = 1 THEN "socket" ELSE NoSocket]
    /\ connOpen = [c \in Conns |-> c = 1]
    /\ resp = [c \in Conns |-> None]
    /\ err = [c \in Conns |-> NoExc]
    /\ wire = [c \in Conns |-> <<>>]
    /\ pending = [c \in Conns |-> <<>>]
    /\ calls = [c \in Conns |-> <<>>]
    /\ parsed = [c \in Conns |-> [reads |-> 0, held |-> 0]]
    /\ reset = [c \in Conns |-> ""]
    /\ died = [c \in Conns |-> NoExc]

NextCodec == \E c \in Conns : Worker(c, Handlers, IOOutcomes)

SpecCodec == InitCodec /\ [][NextCodec]_vars


\* The Responses a handler hands to send_response in the specification of
\* the serializer.
Responses ==
    {Response(status, reason, headers, b) :
        status \in {200, 404},
        reason \in {Str("OK"), Str("Not Found")},
        headers \in {None, List(<<>>),
                     List(<<<<Str("Content-Length"), I(5)>>>>),
                     List(<<<<Str("A"), Str("1")>>, <<Str("B"), I(2)>>>>),
                     List(<<<<Str("B"), I(2)>>, <<Str("A"), Str("1")>>, <<Str("B"), I(2)>>>>)},
        b \in {None, Bytes(""), Bytes("hello")}}

\* The serializer alone: every connection has sent the request "get", its
\* worker has parsed it, and the handler has returned the same Response on
\* each; what is left is self.send_response(conn, resp).
InitSerial ==
    LET r == parse_request(Requests("get")) IN
    /\ apc = "accept"
    /\ cur = 0
    /\ sockOpen = TRUE
    /\ threads = Conns
    /\ lock = 0
    /\ iter = NoIter
    /\ nconn = MaxConns
    /\ left = ""
    /\ logged = 0
    /\ pc = [c \in Conns |-> "send_response"]
    /\ inp = [c \in Conns |-> "get"]
    /\ req = [c \in Conns |-> r.val]
    /\ got = [c \in Conns |-> Unread]
    /\ rfile = [c \in Conns |-> r.rest]
    /\ rfileOpen = [c \in Conns |-> TRUE]
    /\ conn = [c \in Conns |-> "socket"]
    /\ connOpen = [c \in Conns |-> TRUE]
    /\ resp \in {[c \in Conns |-> x] : x \in Responses}
    /\ err = [c \in Conns |-> NoExc]
    /\ wire = [c \in Conns |-> <<>>]
    /\ pending = [c \in Conns |-> <<>>]
    /\ calls = [c \in Conns |-> <<"parse_request", "handle_request">>]
    /\ parsed = [c \in Conns |-> [reads |-> r.reads, held |-> r.held]]
    /\ reset = [c \in Conns |-> ""]
    /\ died = [c \in Conns |-> NoExc]

NextSerial == \E c \in Conns : SendResponse(c, {"sent"})

SpecSerial == InitSerial /\ [][NextSerial]_vars


(***************************************************************************)
(* Properties                                                              *)
(***************************************************************************)
Called(c, op) == \E i \in DOMAIN calls[c] : calls[c][i] = op

\* The worker is past the point where it answers: it closes, deregisters, has
\* returned, or its thread has ended.
Answered(c) == pc[c] \in {"close", "acquire", "remove", "release", "done", "dead"}
Closed(c) == pc[c] \in {"acquire", "remove", "release", "done", "dead"}

\* The socket failed while the worker wrote to it.
SocketFailed(c) ==
    \/ "BrokenPipeError" \in {err[c].type, died[c].type}
    \/ reset[c] = "send_response"
    \/ died[c].type = "ConnectionResetError"

\* The request line the peer of c sends (a line of no bytes when it sends none).
FirstLine(c) ==
    IF Requests(inp[c]).lines = <<>> THEN Line(<<>>, 0) ELSE Head(Requests(inp[c]).lines)

Served(c) == inp[c] \in RequestNames

\* The bytes of an error response as they appear on the connection.
W(part, s) == [part |-> part, s |-> s, w |-> 1]
ErrorWire(statusLine, length, text) ==
    <<W("status", statusLine), W("header", "Content-Length: " \o length \o "\r\n"),
      W("blank", "\r\n"), W("body", text)>>

\* C1: once all spawned workers have completed, the registry _threads is
\* empty, in every interleaving of the workers and the accept loop (workers
\* that a failure of send_error ended before they deregister are left aside).
C1_RegistryEmptyWhenAllDone ==
    (\A c \in Conns : Spawned(c) => Finished(c) /\ died[c].type \in {"NoExc", "KeyError"})
        => threads = {}

\* C2: when serve_forever is left after the interrupt, the listening socket is
\* closed and every worker that is registered has finished: none is left
\* un-joined.
C2_DrainWaitsForAllWorkers ==
    apc \in {"left", "RuntimeError"} =>
        /\ ~sockOpen
        /\ \A c \in threads : Finished(c)

\* A complete response: a status line, header lines, the blank line, and at
\* most one body after it; nothing else.
ValidResponse(w) ==
    \E k \in 2..Len(w) :
        /\ w[1].part = "status"
        /\ \A i \in 2..(k - 1) : w[i].part = "header"
        /\ w[k].part = "blank"
        /\ Len(w) = k \/ (Len(w) = k + 1 /\ w[k + 1].part = "body")

\* C3: on every connection on which no connection reset occurs (and the socket
\* does not fail), the worker has written one complete, valid response by the
\* time it is done with the connection, whatever parse_request and the handler do.
C3_AlwaysOneValidResponse ==
    \A c \in Conns :
        Closed(c) /\ reset[c] = "" /\ ~SocketFailed(c) => ValidResponse(wire[c])

\* C4: when a connection reset is detected while reading (in parse_request or
\* in the handler's body read), the worker goes straight to closing: neither
\* send_response nor send_error is invoked and nothing is written.
C4_ResetIsSilent ==
    \A c \in Conns :
        reset[c] \in {"parse_request", "handle_request"} =>
            /\ wire[c] = <<>>
            /\ ~Called(c, "send_response")
            /\ ~Called(c, "send_error")
            /\ pc[c] \in {"close", "acquire", "remove", "release", "done"}

C4_Witness ==
    \E c \in Conns : reset[c] = "handle_request" /\ pc[c] = "done" /\ wire[c] = <<>>

Wire505 ==
    ErrorWire("HTTP/1.1 505 HTTP Version Not Supported\r\n", "26", "HTTP Version Not Supported")

\* What C5 says of connection c when its request line is one the claim covers.
Answers505(c) ==
    /\ ~Called(c, "handle_request")
    /\ wire[c] # <<>> => wire[c] = Wire505
    /\ Answered(c) /\ ~SocketFailed(c) => wire[c] = Wire505

\* C5 as stated: every request line with three tokens and a version token
\* other than "HTTP/1.1" is answered with 505 and never reaches the handler.
C5_AnyLength ==
    \A c \in Conns :
        Served(c) /\ Len(Split(FirstLine(c).parts)) = 3
                  /\ Split(FirstLine(c).parts)[3] # "HTTP/1.1"
            => Answers505(c)

\* C5, amended: every request line of at most MAX_LINE bytes with three tokens
\* and a version token other than "HTTP/1.1" is answered with 505 (if the
\* socket takes the response) and never reaches the handler; every Request
\* the handler gets has version "HTTP/1.1".
C5_Version505 ==
    \A c \in Conns :
        /\ Served(c) /\ LineLen(FirstLine(c)) <= MAX_LINE
                     /\ Len(Split(FirstLine(c).parts)) = 3
                     /\ Split(FirstLine(c).parts)[3] # "HTTP/1.1"
              => Answers505(c)
        /\ Called(c, "handle_request") => req[c].version = "HTTP/1.1"

C5_Witness ==
    \E c \in Conns : inp[c] = "http10" /\ pc[c] = "done" /\ wire[c] = Wire505

Wire400(text, length) == ErrorWire("HTTP/1.1 400 Bad request\r\n", length, text)

\* The requests with a valid request line and header block in which no Host
\* header has a value.
HostlessRequests == {"nohost", "emptyhost", "spacehost"}

\* C6: a request with a valid request line and header block but no Host header,
\* or an empty one, is answered with 400 and never reaches the handler; every
\* Request the handler gets carries a non-empty Host header.
C6_HostRequired ==
    \A c \in Conns :
        /\ inp[c] \in HostlessRequests =>
              /\ ~Called(c, "handle_request")
              /\ wire[c] # <<>> => wire[c] = Wire400("Host header is missing", "22")
              /\ Answered(c) /\ ~SocketFailed(c) =>
                    wire[c] = Wire400("Host header is missing", "22")
        /\ Called(c, "handle_request") =>
              \E i \in DOMAIN req[c].headers :
                  /\ req[c].headers[i][1] \in {"Host", "host", "HOST"}
                  /\ req[c].headers[i][2].s # ""

C6_Witness ==
    \E c \in Conns :
        /\ inp[c] = "emptyhost" /\ pc[c] = "done"
        /\ wire[c] = Wire400("Host header is missing", "22")

\* The peer of c resets the connection before it has sent a request line.
ResetAtOnce(c) == Requests(inp[c]).lines = <<>> /\ Requests(inp[c]).end = "reset"

\* The request line of c is within the length limit and has not three tokens
\* (none at all when the peer sends an empty line, or nothing and shuts down).
MalformedLine(c) ==
    /\ Served(c) /\ ~ResetAtOnce(c)
    /\ LineLen(FirstLine(c)) <= MAX_LINE
    /\ Len(Split(FirstLine(c).parts)) # 3

\* C7 as stated: a request line within the limit whose token count is not 3
\* is answered with status 400 and the reason phrase "Malformed request line".
C7_ReasonIsMalformed ==
    \A c \in Conns :
        MalformedLine(c) /\ Answered(c) /\ ~SocketFailed(c) =>
            /\ wire[c] # <<>>
            /\ wire[c][1] = W("status", "HTTP/1.1 400 Malformed request line\r\n")

\* C7, amended: such a request line is answered with status 400, the reason
\* phrase "Bad request" and the body "Malformed request line", and never
\* reaches the handler.
C7_Malformed400 ==
    \A c \in Conns :
        MalformedLine(c) =>
            /\ ~Called(c, "handle_request")
            /\ wire[c] # <<>> => wire[c] = Wire400("Malformed request line", "22")
            /\ Answered(c) /\ ~SocketFailed(c) =>
                  wire[c] = Wire400("Malformed request line", "22")

C7_Witness ==
    \E c \in Conns :
        /\ inp[c] = "4tokens" /\ pc[c] = "done"
        /\ wire[c] = Wire400("Malformed request line", "22")

Wire494(reason, length) ==
    ErrorWire("HTTP/1.1 494 " \o reason \o "\r\n", length, reason)

\* What C8 says of the lines themselves: too long a request line gives 400
\* "Request line is too long", too long a header line gives 494 "Request
\* header too large", and a line of exactly MAX_LINE bytes is accepted.
LineLimit(c) ==
    /\ Served(c) /\ LineLen(FirstLine(c)) > MAX_LINE =>
          /\ ~Called(c, "handle_request")
          /\ wire[c] # <<>> => wire[c] = Wire400("Request line is too long", "24")
          /\ Answered(c) /\ ~SocketFailed(c) =>
                wire[c] = Wire400("Request line is too long", "24")
    /\ inp[c] = "header>MAX" =>
          /\ ~Called(c, "handle_request")
          /\ wire[c] # <<>> => wire[c] = Wire494("Request header too large", "24")
          /\ Answered(c) /\ ~SocketFailed(c) =>
                wire[c] = Wire494("Request header too large", "24")
    /\ inp[c] \in {"line=MAX", "header=MAX"} /\ pc[c] # "parse_request" =>
          /\ req[c] # None
          /\ parsed[c].held = MAX_LINE

\* C8 as stated: the line limits, and the parser never holds more than
\* MAX_LINE bytes of a single line.
C8_HoldsAtMostMaxLine ==
    \A c \in Conns : LineLimit(c) /\ parsed[c].held <= MAX_LINE

\* C8, amended: the line limits, and the parser never holds more than
\* MAX_LINE + 1 bytes of a single line (readline is given MAX_LINE + 1).
C8_LineLimit ==
    \A c \in Conns : LineLimit(c) /\ parsed[c].held <= MAX_LINE + 1

C8_Witness ==
    \E c \in Conns :
        /\ inp[c] = "line>MAX" /\ pc[c] = "done"
        /\ parsed[c].held = MAX_LINE + 1
        /\ wire[c] = Wire400("Request line is too long", "24")

\* C9: a header block of exactly MAX_HEADERS lines is accepted; the line after
\* them fails with 494 "Too many headers" at once, no further line being read
\* (the request line and MAX_HEADERS + 1 header lines are all that was read);
\* no Request with more than MAX_HEADERS header lines reaches the handler.
C9_HeaderCountLimit ==
    \A c \in Conns :
        /\ inp[c] = "headers=MAX" /\ pc[c] # "parse_request" =>
              /\ req[c] # None
              /\ req[c].nlines = MAX_HEADERS
        /\ inp[c] \in {"headers>MAX", "headers>>MAX"} =>
              /\ ~Called(c, "handle_request")
              /\ pc[c] # "parse_request" =>
                    /\ parsed[c].reads = MAX_HEADERS + 2
                    /\ Len(rfile[c].lines) =
                          Len(Requests(inp[c]).lines) - (MAX_HEADERS + 2)
              /\ wire[c] # <<>> => wire[c] = Wire494("Too many headers", "16")
              /\ Answered(c) /\ ~SocketFailed(c) =>
                    wire[c] = Wire494("Too many headers", "16")
        /\ Called(c, "handle_request") => req[c].nlines <= MAX_HEADERS

C9_Witness ==
    \E c \in Conns :
        /\ inp[c] = "headers>>MAX" /\ pc[c] = "done"
        /\ Len(rfile[c].lines) = 3
        /\ wire[c] = Wire494("Too many headers", "16")

\* The response C10 expects for an HTTPError e: its status and reason, the
\* body text if there is one and the reason otherwise, UTF-8 encoded, and
\* Content-Length with the number of bytes of that body.
ExpectedErrorWire(e) ==
    LET text == IF e.body # None /\ e.body.s # "" THEN e.body ELSE e.reason
        each == IF text.cs = "ascii" THEN 1 ELSE 2
    IN  <<W("status", "HTTP/1.1 " \o ToString(e.status) \o " " \o e.reason.s \o "\r\n"),
          W("header", "Content-Length: " \o ToString(Len(text.s) * each) \o "\r\n"),
          W("blank", "\r\n"),
          [part |-> "body", s |-> text.s, w |-> each]>>

\* C10: whenever an HTTPError is raised by parse_request or by the handler,
\* the response written carries its status and reason, the body above and
\* the matching Content-Length (unless the socket fails).
C10_ErrorResponseWritten ==
    \A c \in Conns :
        err[c].type = "HTTPError" /\ Answered(c) /\ ~SocketFailed(c) =>
            wire[c] = ExpectedErrorWire(err[c])

\* The fixed response of send_error for a failure whose description is text.
Wire500(text) ==
    ErrorWire("HTTP/1.1 500 Internal Server Error\r\n",
              ToString(BLen(EncodeUtf8(text))), text.s)

\* The failures raised on connection c by parse_request, the handler,
\* send_response or send_error that are neither an HTTPError nor a connection
\* reset.
Unstructured(c) ==
    {e \in {err[c], died[c]} : e.type \notin {"NoExc", "HTTPError", "KeyError"}}

\* C11: whenever parsing, the handler or the writing of a response raises a
\* failure that is neither an HTTPError nor a connection reset, the response
\* on the connection is the fixed 500 "Internal Server Error" with the
\* failure's description as body, and no other status (unless the socket fails).
C11_UnstructuredGives500 ==
    \A c \in Conns :
        Answered(c) /\ ~SocketFailed(c) =>
            \A e \in Unstructured(c) :
                /\ Len(wire[c]) >= 4
                /\ SubSeq(wire[c], 1, 4) = Wire500(e.text)

\* C12: a failure of a step of the accept loop (accept itself, or the spawning
\* of a worker) does not end the loop: serve_forever leaves the loop only
\* through the external interrupt.
C12_OnlyInterruptLeavesLoop ==
    apc \notin {"accept", "start", "add"} => left = "KeyboardInterrupt"

\* Worker d waits for the registry lock, and the thread that holds the lock
\* has ended: d never gets it.
BlockedForEver(d) == pc[d] = "acquire" /\ lock # 0 /\ Finished(lock)

\* C13: a failure while one connection is processed (in parsing, in the
\* handler, in writing the response or the error response, in deregistering)
\* ends neither the accept loop nor the work of another connection: serve_forever
\* leaves its loop only for a reason of its own, and no other worker is left
\* waiting for ever.
C13_FailuresStayLocal ==
    \A c \in Conns :
        died[c] # NoExc =>
            /\ left \in {"", "KeyboardInterrupt", "OSError"}
            /\ \A d \in Conns \ {c} : ~BlockedForEver(d)

\* C14: a worker that has written a response and has ended has done all
\* three cleanup steps: the connection is closed, the read stream that
\* parse_request opened is closed, and the worker's handle is out of the
\* registry, the lock released; on the parse-failure path as on the others.
C14_CleanupAfterResponse ==
    \A c \in Conns :
        Finished(c) /\ wire[c] # <<>> =>
            /\ ~connOpen[c]
            /\ ~rfileOpen[c]
            /\ c \notin threads
            /\ lock # c

\* A step that reads or changes the registry: an insertion or a removal, or a
\* step of the iteration of the shutdown drain.
RegistryAccess == threads' # threads \/ (apc = "for" /\ apc' # apc)

\* The step is taken by the thread that holds the lock (only a worker ever
\* takes it, for its removal).
ByLockHolder == lock # 0 /\ pc[lock] = "remove" /\ pc'[lock] # "remove"

\* C15: every access to the registry (insertion at spawn, removal at
\* completion, iteration during the drain) is made by the thread that holds
\* the registry lock, and the lock is held over no socket operation and no join.
C15_RegistryOnlyUnderLock ==
    /\ [][RegistryAccess => ByLockHolder]_vars
    /\ [](lock # 0 => pc[lock] \in {"remove", "release", "dead"})

\* The orders in which serve_client can have invoked its steps so far.
StepOrders ==
    {<<>>,
     <<"parse_request">>,
     <<"parse_request", "send_error">>,
     <<"parse_request", "handle_request">>,
     <<"parse_request", "handle_request", "send_error">>,
     <<"parse_request", "handle_request", "send_response">>,
     <<"parse_request", "handle_request", "send_response", "send_error">>}

\* C16: on each connection the steps are taken in order and none twice:
\* parse_request once, handle_request at most once and only with the Request
\* that parse_request returned (version HTTP/1.1, a Host header with a value),
\* and no step again after a failure.
C16_StepsOnceInOrder ==
    \A c \in Conns :
        /\ calls[c] \in StepOrders
        /\ Called(c, "handle_request") =>
              /\ req[c] # None
              /\ req[c].version = "HTTP/1.1"
              /\ \E i \in DOMAIN req[c].headers :
                    Lower(req[c].headers[i][1]) = "host" /\ req[c].headers[i][2].s # ""

C16_Witness ==
    \E c \in Conns :
        /\ pc[c] = "done"
        /\ calls[c] = <<"parse_request", "handle_request", "send_response", "send_error">>

\* The lines of the request of c, and those that are a Content-Length header.
SentLines(c) == Requests(inp[c]).lines
LengthLines(c) == {i \in DOMAIN SentLines(c) : SentLines(c)[i].parts[1] = "Content-Length"}

\* The bytes the peer of c sends after the blank line.
SentBody(c) == Requests(inp[c]).body

\* C17: parse_request consumes no byte of the body; req.body() gives None when
\* the request has no Content-Length header, and with Content-Length: N
\* (N >= 0, N = 0 included) exactly the first N bytes after the blank line,
\* when the peer sends that many.
C17_BodyByContentLength ==
    \A c \in Conns :
        /\ pc[c] = "handle_request" => rfile[c].body = SentBody(c)
        /\ got[c] # Unread /\ LengthLines(c) = {} => got[c] = None
        /\ got[c] # Unread /\ LengthLines(c) # {} =>
              LET n == ToInt(SentLines(c)[Least(LengthLines(c))].parts[4]) IN
              n >= 0 /\ Len(SentBody(c)) >= n =>
                  /\ got[c] = [bytes |-> SubSeq(SentBody(c), 1, n)]
                  /\ rfile[c].body = SubSeq(SentBody(c), n + 1, Len(SentBody(c)))

C17_Witness ==
    \E c \in Conns :
        /\ inp[c] = "put0" /\ pc[c] = "done"
        /\ got[c] = [bytes |-> <<>>]
        /\ rfile[c].body = <<97>>

\* C17 as stated: with Content-Length: N, req.body() gives exactly N bytes,
\* whatever the peer sends after the blank line.
C17_AlwaysNBytes ==
    \A c \in Conns :
        got[c] \notin {Unread, None} /\ LengthLines(c) # {} =>
            Len(got[c].bytes) = ToInt(SentLines(c)[Least(LengthLines(c))].parts[4])

\* The bytes of the chunks of w, one after the other.
RECURSIVE Flat(_)
Flat(w) == IF w = <<>> THEN "" ELSE Head(w).s \o Flat(Tail(w))

\* The text of a header name or value: a number in decimal.
Text(v) == IF "int" \in DOMAIN v THEN ToString(v.int) ELSE v.s

\* "{name}: {value}\r\n" for each pair of hs, in the order of hs.
RECURSIVE HeaderText(_)
HeaderText(hs) ==
    IF hs = <<>> THEN ""
    ELSE Text(Head(hs)[1]) \o ": " \o Text(Head(hs)[2]) \o "\r\n" \o HeaderText(Tail(hs))

\* The bytes C18 expects for Response r.
Serialized(r) ==
    "HTTP/1.1 " \o ToString(r.status) \o " " \o r.reason.s \o "\r\n"
        \o (IF r.headers = None THEN "" ELSE HeaderText(r.headers.items))
        \o "\r\n"
        \o (IF r.body = None THEN "" ELSE r.body.s)

\* send_response has returned on connection c without a failure.
Serialised(c) == Called(c, "send_response") /\ pc[c] = "close" /\ err[c] = NoExc

\* C18: the bytes send_response writes are the status line, one line per
\* header pair in the order given (duplicates kept, none added or removed),
\* the blank line, and the body as it is; the same Response gives the same
\* bytes each time it is serialized.
C18_SerializationExact ==
    \A c \in Conns :
        Serialised(c) =>
            /\ Flat(wire[c]) = Serialized(resp[c])
            /\ Len(SelectSeq(wire[c], LAMBDA x : x.part = "header")) =
                   (IF resp[c].headers = None THEN 0 ELSE Len(resp[c].headers.items))
            /\ resp[c] = Response(200, Str("OK"), List(<<<<Str("Content-Length"), I(5)>>>>),
                                  Bytes("hello"))
                  => Flat(wire[c]) = "HTTP/1.1 200 OK\r\nContent-Length: 5\r\n\r\nhello"
            /\ \A d \in Conns : Serialised(d) /\ resp[d] = resp[c] => wire[d] = wire[c]

C18_Witness ==
    /\ \A c \in Conns : Serialised(c)
    /\ wire[1] = wire[2]
    /\ Flat(wire[1]) = "HTTP/1.1 404 Not Found\r\nB: 2\r\nA: 1\r\nB: 2\r\n\r\nhello"

\* C19: no worker ends, by returning or by an exception raised while it
\* removes itself from the registry, with the registry lock still held.
C19_LockReleasedAtEnd ==
    \A c \in Conns : Finished(c) => lock # c

\* C20: at most one response is started on a connection: the bytes on it hold
\* at most one status line, also when send_response fails after it has
\* written part of the handler's Response and send_error answers.
C20_OneResponseStarted ==
    \A c \in Conns :
        Len(SelectSeq(wire[c], LAMBDA x : x.part = "status")) <= 1
=============================================================================
